---- MODULE Spec2Model ----
(***************************************************************************)
(* fmu_handler: the FMUAdapter session over the modelDescription.xml of an *)
(* FMU archive (parse, query, set, remove, render, save, re-load).         *)
(*                                                                         *)
(* Python values are pairs <<type, text>>: the type's name and the text    *)
(* str() gives for the value, so that conversions (int(), float(), bool(), *)
(* str()) are computed and a render / parse round trip is not the          *)
(* identity.  An XML attribute is None (absent) or a str value.            *)
(***************************************************************************)
EXTENDS Integers, Sequences, FiniteSets, TLC

\* ------------------------------------------------------------------ bounds
\* The longest ModelVariables section of a source document.
MaxVars == 2
\* The number of calls of the public interface made on a loaded archive.
MaxSteps == 3
\* The number of direct calls of __set_scalar_variable_by_name (SpecSet).
MaxSetCalls == 1
\* The number of batch reductions made on a loaded archive (SpecCut).
MaxCuts == 1
\* The number of calls made on two sessions of one source (SpecTwo).
MaxPairCalls == 2
\* The number of calls made by a caller that holds a query result (SpecQuery).
MaxQueryCalls == 3

\* ----------------------------------------------------------- Python values
None == <<"NoneType", "None">>
StrV(t) == <<"str", t>>
IntV(t) == <<"int", t>>
FloatV(t) == <<"float", t>>
BoolV(t) == <<"bool", t>>
\* A raised exception, where a value was expected.
Raise(e) == <<"raise", e>>
IsRaise(v) == v[1] = "raise"

\* fmu_types.py: the members of the enumerations.
Causality == {"parameter", "calculatedParameter", "input", "output", "local", "independent"}
Initial == {"exact", "approx", "calculated"}
FMUDataTypes == {"real", "integer", "boolean", "string", "enumeration"}
CausalityMember(n) == <<"Causality", n>>
InitialMember(n) == <<"Initial", n>>
FMUDataTypesMember(n) == <<"FMUDataTypes", n>>

\* bool(v): the truth value of `if v`.  A plain Enum member is always true.
Truthy(v) == v \notin {None, IntV("0"), FloatV("0.0"), BoolV("False"), StrV("")}

\* The float a number's text denotes, as Python prints it.
FloatText(t) ==
    CASE t \in {"0", "0.0"} -> "0.0"
      [] t \in {"1", "1.0"} -> "1.0"
      [] t \in {"69", "69.0"} -> "69.0"
      [] t = "1.5" -> "1.5"
      [] OTHER -> "nan"

\* int(var), float(var), bool(var), str(var) of a str value var.
PyInt(var) == IF var[2] \in {"0", "1", "69"} THEN IntV(var[2]) ELSE Raise("ValueError")
PyFloat(var) == IF FloatText(var[2]) # "nan" THEN FloatV(FloatText(var[2])) ELSE Raise("ValueError")
PyBool(var) == BoolV(IF var[2] = "" THEN "False" ELSE "True")
PyStr(v) == StrV(v[2])

\* a == b: numbers compare by value across int, float and bool.
NumText(v) ==
    CASE v[1] = "int" -> FloatText(v[2])
      [] v[1] = "float" -> v[2]
      [] v[1] = "bool" -> IF v[2] = "True" THEN "1.0" ELSE "0.0"
      [] OTHER -> "nan"
PyEq(a, b) == a = b \/ (NumText(a) # "nan" /\ NumText(a) = NumText(b))

\* Enum[var]: the member of that name, or KeyError.
EnumLookup(enum, members, var) ==
    IF var[2] \in members THEN <<enum, var[2]>> ELSE Raise("KeyError")

\* --------------------------------------------------------- source documents
\* A ScalarVariable element under ModelVariables: its attributes, and the tag
\* and the start attribute of its first child.
Node(name, vr, caus, init, unit, descr, tag, start) ==
    [name |-> name, valueReference |-> vr, causality |-> caus, initial |-> init,
     unit |-> unit, description |-> descr,
     canHandleMultipleSetPerTimeInstant |-> None, tag |-> tag, start |-> start]

\* The ScalarVariable elements the source documents are built from: every
\* optional attribute occurs declared and undeclared, every value tag the
\* parser tells apart occurs, and a name may occur more than once.
Nodes ==
    { Node(StrV("a"), StrV("0"), StrV("parameter"), StrV("exact"), StrV("bar"), StrV("d"), "Real", StrV("1.5")),
      Node(StrV("a"), StrV("1"), None, None, None, None, "Integer", StrV("0")),
      Node(StrV("a"), StrV("1"), StrV("output"), None, None, None, "String", StrV("x")),
      Node(StrV("b"), StrV("0"), StrV("parameter"), StrV("exact"), StrV("bar"), StrV("d"), "Real", StrV("1.5")),
      Node(StrV("b"), StrV("1"), StrV("input"), None, None, None, "Real", None),
      Node(StrV("b"), StrV("0"), StrV("parameter"), None, None, StrV("d"), "Boolean", StrV("false")) }

SeqsUpTo(S, n) == UNION {[1..k -> S] : k \in 0..n}

\* A modelDescription.xml document: the ScalarVariable elements under
\* ModelVariables, in document order, and which of the root sections the
\* parser looks for are present.
Document(xml_variables, de, cs, me) ==
    [ModelVariables |-> xml_variables, DefaultExperiment |-> de,
     CoSimulation |-> cs, ModelExchange |-> me]

\* The source documents: co-simulation FMUs with a DefaultExperiment section.
Docs == {Document(v, TRUE, TRUE, FALSE) : v \in SeqsUpTo(Nodes, MaxVars)}

\* An archive: its members in order (file name and bytes), and the document
\* the bytes of its modelDescription.xml member (written "xml") hold.
Member(filename, bytes) == [filename |-> filename, bytes |-> bytes]
ModelDescriptionXml == "modelDescription.xml"
Archive(members, xml) == [members |-> members, xml |-> xml]
ArchiveOf(d) ==
    Archive(<<Member("binaries/model.dll", "dll"), Member(ModelDescriptionXml, "xml"),
              Member("resources/r.txt", "txt")>>, d)
Archives == {ArchiveOf(d) : d \in Docs}

\* The archives the direct set calls are made on: their variables are a fully
\* declared one, one that declares little beside its start, and one without a
\* start.
SetNodes == {n \in Nodes : n.tag \in {"Real", "Integer"} /\ (n.name = StrV("a") \/ n.start = None)}
SetArchives == {ArchiveOf(Document(v, TRUE, TRUE, FALSE)) : v \in SeqsUpTo(SetNodes, MaxVars)}

\* The archives whose loading is looked at: every combination of the root
\* sections the parser looks for, present or absent.
LoadArchives ==
    {ArchiveOf(Document(v, de, cs, me)) :
        v \in SeqsUpTo(SetNodes, MaxVars), de \in BOOLEAN, cs \in BOOLEAN, me \in BOOLEAN}

\* ------------------------------------------------------------------ types
\* Optional[x]: None is the empty sequence, an object the sequence holding it.
NoObject == <<>>
Some(x) == <<x>>

\* fmu_types.py: the FMUScalarVariable dataclass; every field defaults to None.
FMUScalarVariable ==
    [name |-> None, value_reference |-> None, causality |-> None, data_type |-> None,
     variability |-> None, description |-> None, initial |-> None,
     can_handle_multiple_set_per_time_instant |-> None, start |-> None, unit |-> None]

Fields == DOMAIN FMUScalarVariable

\* The number of fields among fs that the record r sets (is not None).
NumSet(r, fs) == Cardinality({f \in fs : r[f] # None})

\* ----------------------------------------------------------------- parser
\* The loop body with every branch treating the start attribute as the last
\* one does: start = str(var), whatever the tag.
parse_scalar_variable_start_as_text(variable) ==
    LET value_reference ==
            IF variable.valueReference = None THEN Raise("TypeError")
            ELSE PyInt(variable.valueReference)
        causality ==
            IF variable.causality # None
            THEN EnumLookup("Causality", Causality, variable.causality) ELSE None
        initial ==
            IF variable.initial # None
            THEN EnumLookup("Initial", Initial, variable.initial) ELSE None
        var == variable.start
        start == IF var # None THEN PyStr(var) ELSE None
        data_type ==
            CASE variable.tag = "Real" -> FMUDataTypesMember("real")
              [] variable.tag = "Integer" -> FMUDataTypesMember("integer")
              [] variable.tag = "Boolean" -> FMUDataTypesMember("boolean")
              [] variable.tag = "Enumeration" -> FMUDataTypesMember("enumeration")
              [] OTHER -> FMUDataTypesMember("string")
        raised == SelectSeq(<<value_reference, causality, initial>>, IsRaise)
    IN  [err |-> IF raised = <<>> THEN "" ELSE raised[1][2],
         var |-> [FMUScalarVariable EXCEPT
                    !.name = variable.name,
                    !.start = start,
                    !.value_reference = value_reference,
                    !.causality = causality,
                    !.initial = initial,
                    !.data_type = data_type,
                    !.unit = variable.unit,
                    !.description = variable.description,
                    !.can_handle_multiple_set_per_time_instant =
                        variable.canHandleMultipleSetPerTimeInstant]]

\* The body of the loop of __parse_fmu_scalar_variables for one element: the
\* exception it raises ("" when none) and the variable it appends.
parse_scalar_variable(variable) ==
    LET value_reference ==
            IF variable.valueReference = None THEN Raise("TypeError")
            ELSE PyInt(variable.valueReference)
        causality ==
            IF variable.causality # None
            THEN EnumLookup("Causality", Causality, variable.causality) ELSE None
        initial ==
            IF variable.initial # None
            THEN EnumLookup("Initial", Initial, variable.initial) ELSE None
        var == variable.start
        start ==
            CASE variable.tag = "Real" -> IF var # None THEN PyFloat(var) ELSE None
              [] variable.tag = "Integer" -> IF var # None THEN PyInt(var) ELSE None
              [] variable.tag = "Boolean" -> IF var # None THEN PyBool(var) ELSE None
              [] variable.tag = "Enumeration" -> IF var # None THEN PyStr(var) ELSE None
              [] OTHER -> IF var # None THEN PyStr(var) ELSE None
        data_type ==
            CASE variable.tag = "Real" -> FMUDataTypesMember("real")
              [] variable.tag = "Integer" -> FMUDataTypesMember("integer")
              [] variable.tag = "Boolean" -> FMUDataTypesMember("boolean")
              [] variable.tag = "Enumeration" -> FMUDataTypesMember("enumeration")
              [] OTHER -> FMUDataTypesMember("string")
        raised == SelectSeq(<<value_reference, causality, initial, start>>, IsRaise)
    IN  [err |-> IF raised = <<>> THEN "" ELSE raised[1][2],
         var |-> [FMUScalarVariable EXCEPT
                    !.name = variable.name,
                    !.start = start,
                    !.value_reference = value_reference,
                    !.causality = causality,
                    !.initial = initial,
                    !.data_type = data_type,
                    !.unit = variable.unit,
                    !.description = variable.description,
                    !.can_handle_multiple_set_per_time_instant =
                        variable.canHandleMultipleSetPerTimeInstant]]

\* __parse_fmu_scalar_variables without the test `if xml_variables`: a
\* document without ScalarVariable elements gives the empty list.
parse_fmu_scalar_variables_unchecked(fmu_tree) ==
    LET xml_variables == fmu_tree.ModelVariables
        parsed == [i \in 1..Len(xml_variables) |-> parse_scalar_variable(xml_variables[i])]
        HasErr(p) == p.err # ""
        failed == SelectSeq(parsed, HasErr)
    IN  IF failed # <<>> THEN [err |-> failed[1].err, variables |-> <<>>]
        ELSE [err |-> "", variables |-> [i \in 1..Len(parsed) |-> parsed[i].var]]

\* __parse_fmu_scalar_variables: one variable per ScalarVariable element
\* under ModelVariables, in document order; KeyError when there is none; the
\* first exception an element raises otherwise.
parse_fmu_scalar_variables(fmu_tree) ==
    LET xml_variables == fmu_tree.ModelVariables
        parsed == [i \in 1..Len(xml_variables) |-> parse_scalar_variable(xml_variables[i])]
        HasErr(p) == p.err # ""
        failed == SelectSeq(parsed, HasErr)
    IN  IF xml_variables = <<>> THEN [err |-> "KeyError", variables |-> <<>>]
        ELSE IF failed # <<>> THEN [err |-> failed[1].err, variables |-> <<>>]
        ELSE [err |-> "", variables |-> [i \in 1..Len(parsed) |-> parsed[i].var]]

\* __load_fmu_data: the document of the archive's modelDescription.xml member
\* (KeyError when the archive has no such member).
load_fmu_data(archive) ==
    LET IsMd(m) == m.filename = ModelDescriptionXml
    IN  IF SelectSeq(archive.members, IsMd) = <<>>
        THEN [err |-> "KeyError", fmu_tree |-> archive.xml]
        ELSE [err |-> "", fmu_tree |-> archive.xml]

\* __parse_fmu_default_experiment_parameter without its else branch: a missing
\* DefaultExperiment section is passed over.
parse_fmu_default_experiment_parameter_optional(fmu_tree) == ""

\* __parse_fmu_simulation_type without the ModelExchange branch.
parse_fmu_simulation_type_co_simulation_only(fmu_tree) ==
    IF fmu_tree.CoSimulation THEN "" ELSE "KeyError"

\* __parse_fmu_default_experiment_parameter and __parse_fmu_simulation_type:
\* the exception raised ("" when none).
parse_fmu_default_experiment_parameter(fmu_tree) ==
    IF fmu_tree.DefaultExperiment THEN "" ELSE "KeyError"

parse_fmu_simulation_type(fmu_tree) ==
    IF fmu_tree.CoSimulation THEN ""
    ELSE IF fmu_tree.ModelExchange THEN "NotImplementedError"
    ELSE "KeyError"

\* __parse_fmu_model_description: the arguments of FMIModelDescription are
\* evaluated in order (the variables, the default experiment, the simulation
\* type); the first exception ends the construction.
parse_fmu_model_description(fmu_tree) ==
    LET sv == parse_fmu_scalar_variables(fmu_tree)
        de == parse_fmu_default_experiment_parameter(fmu_tree)
        st == parse_fmu_simulation_type(fmu_tree)
    IN  IF sv.err # "" THEN sv
        ELSE IF de # "" THEN [err |-> de, variables |-> <<>>]
        ELSE IF st # "" THEN [err |-> st, variables |-> <<>>]
        ELSE sv

\* ------------------------------------------------------------ query engine
\* Matches with the tests `query.f and` left out: every field is compared.
MatchesCompareAll(element, query) ==
    /\ PyEq(element.name, query.name)
    /\ PyEq(element.value_reference, query.value_reference)
    /\ PyEq(element.causality, query.causality)
    /\ PyEq(element.initial, query.initial)
    /\ PyEq(element.data_type, query.data_type)
    /\ PyEq(element.unit, query.unit)
    /\ PyEq(element.description, query.description)
    /\ PyEq(element.start, query.start)

\* The chain of `continue` tests of query_scalar_variables for one element.
Matches(element, query) ==
    /\ ~(Truthy(query.name) /\ ~PyEq(element.name, query.name))
    /\ ~(Truthy(query.value_reference) /\ ~PyEq(element.value_reference, query.value_reference))
    /\ ~(Truthy(query.causality) /\ ~PyEq(element.causality, query.causality))
    /\ ~(Truthy(query.initial) /\ ~PyEq(element.initial, query.initial))
    /\ ~(Truthy(query.data_type) /\ ~PyEq(element.data_type, query.data_type))
    /\ ~(Truthy(query.unit) /\ ~PyEq(element.unit, query.unit))
    /\ ~(Truthy(query.description) /\ ~PyEq(element.description, query.description))
    /\ ~(Truthy(query.start) /\ ~PyEq(element.start, query.start))

\* The positions in svs of the objects query_scalar_variables returns, in the
\* order it returns them (a returned variable is the object in the collection).
query_indices(svs, query) ==
    LET Keep(i) == Matches(svs[i], query[1])
    IN  IF query = NoObject THEN [i \in 1..Len(svs) |-> i]
        ELSE SelectSeq([i \in 1..Len(svs) |-> i], Keep)

query_scalar_variables(svs, query) ==
    LET idx == query_indices(svs, query) IN [k \in 1..Len(idx) |-> svs[idx[k]]]

\* query_scalar_variables without the early return of `if query is None`: the
\* loop appends every element to the new list `variables`.
returned_list_new(svs, query) ==
    [ref |-> "variables", list |-> query_scalar_variables(svs, query)]

\* The list object query_scalar_variables returns: the collection itself when
\* query is None (`return ...model_variables.scalar_variables`), else the new
\* list `variables` the loop has filled.
returned_list(svs, query) ==
    IF query = NoObject THEN [ref |-> "scalar_variables", list |-> <<>>]
    ELSE [ref |-> "variables", list |-> query_scalar_variables(svs, query)]

\* The elements of a list object, the collection being svs now.
elements(object, svs) == IF object.ref = "scalar_variables" THEN svs ELSE object.list

\* The position of the object get_scalar_variable_by_name returns; 0 for None.
get_index_by_name(svs, name) ==
    LET variable == query_indices(svs, Some([FMUScalarVariable EXCEPT !.name = name]))
    IN  IF Len(variable) = 0 THEN 0
        ELSE IF Len(variable) > 1 THEN 0
        ELSE variable[1]

get_scalar_variable_by_name(svs, name) ==
    LET i == get_index_by_name(svs, name)
    IN  IF i = 0 THEN NoObject ELSE Some(svs[i])

\* --------------------------------------------------------- mutation engine
\* The fields __set_scalar_variable_by_name updates, in the order it does.
SetOrder == <<"causality", "unit", "start", "data_type", "initial", "description",
              "value_reference">>

\* set_fields without the tests `variable.f is not None`: every field the call
\* carries is assigned.
RECURSIVE set_fields_unguarded(_, _, _)
set_fields_unguarded(variable, set_values, k) ==
    IF k > Len(SetOrder) THEN [err |-> "", var |-> variable]
    ELSE LET f == SetOrder[k]
         IN  IF set_values[f] # None
             THEN set_fields_unguarded([variable EXCEPT ![f] = set_values[f]], set_values, k + 1)
             ELSE set_fields_unguarded(variable, set_values, k + 1)

\* The `if set_values.f is not None` blocks from the k-th on, run on the
\* variable object: the exception raised ("" when none) and the variable as
\* the blocks leave it (a block's assignment is made in place, before any
\* later block raises).
RECURSIVE set_fields(_, _, _)
set_fields(variable, set_values, k) ==
    IF k > Len(SetOrder) THEN [err |-> "", var |-> variable]
    ELSE LET f == SetOrder[k]
         IN  IF set_values[f] # None
             THEN IF variable[f] # None
                  THEN set_fields([variable EXCEPT ![f] = set_values[f]], set_values, k + 1)
                  ELSE [err |-> "KeyError", var |-> variable]
             ELSE set_fields(variable, set_values, k + 1)

NotFound == "not found"
FieldNotDeclared == "attribute is not set in original fmu"

\* __set_scalar_variable_by_name without the test `variable is None`: a name
\* that resolves to no variable is passed over.
set_scalar_variable_by_name_unchecked(svs, set_values) ==
    LET i == get_index_by_name(svs, set_values.name)
        done == set_fields(svs[i], set_values, 1)
    IN  IF ~Truthy(set_values.name) \/ i = 0 THEN [err |-> "", msg |-> "", variables |-> svs]
        ELSE [err |-> done.err,
              msg |-> IF done.err = "" THEN "" ELSE FieldNotDeclared,
              variables |-> [svs EXCEPT ![i] = done.var]]

\* __set_scalar_variable_by_name on the collection svs: the exception raised
\* ("" when it returns), its message, and the collection afterwards.
set_scalar_variable_by_name(svs, set_values) ==
    LET i == get_index_by_name(svs, set_values.name)
        done == set_fields(svs[i], set_values, 1)
    IN  IF ~Truthy(set_values.name) THEN [err |-> "", msg |-> "", variables |-> svs]
        ELSE IF i = 0 THEN [err |-> "KeyError", msg |-> NotFound, variables |-> svs]
        ELSE [err |-> done.err,
              msg |-> IF done.err = "" THEN "" ELSE FieldNotDeclared,
              variables |-> [svs EXCEPT ![i] = done.var]]

\* set_start_value storing the text of the value instead of the value.
set_start_value_as_text(svs, name, value) ==
    set_scalar_variable_by_name(svs, [FMUScalarVariable EXCEPT !.name = name, !.start = PyStr(value)])

\* set_start_value(name, value).
set_start_value(svs, name, value) ==
    set_scalar_variable_by_name(svs, [FMUScalarVariable EXCEPT !.name = name, !.start = value])

\* The dataclass's __eq__: the fields compare equal, one by one.
DataclassEq(x, y) == \A f \in Fields : PyEq(x[f], y[f])

\* list.remove(x): the list without its first element equal to x.
ListRemove(list, x) ==
    LET hits == {j \in 1..Len(list) : DataclassEq(list[j], x)}
        first == CHOOSE j \in hits : \A h \in hits : j <= h
    IN  IF hits = {} THEN list
        ELSE [j \in 1..(Len(list) - 1) |-> IF j < first THEN list[j] ELSE list[j + 1]]

\* remove_scalar_variable_by_name without the append to
\* self._scalar_variables_to_be_removed: the variable leaves the collection
\* and its name is not staged.
remove_scalar_variable_by_name_unstaged(svs, pending, name) ==
    LET i == get_index_by_name(svs, name)
    IN  IF i = 0
        THEN [err |-> "KeyError", msg |-> NotFound, variables |-> svs, pending |-> pending]
        ELSE [err |-> "", msg |-> "",
              variables |-> ListRemove(svs, svs[i]),
              pending |-> pending]

\* remove_scalar_variable_by_name on the collection svs and the staged names
\* pending: the exception raised ("" when it returns) and both afterwards.
remove_scalar_variable_by_name(svs, pending, name) ==
    LET i == get_index_by_name(svs, name)
    IN  IF i = 0
        THEN [err |-> "KeyError", msg |-> NotFound, variables |-> svs, pending |-> pending]
        ELSE [err |-> "", msg |-> "",
              variables |-> ListRemove(svs, svs[i]),
              pending |-> Append(pending, svs[i].name)]

\* --------------------------------------------------------- batch reduction
\* The characters of a name's text.
Chars(text) ==
    CASE text = "" -> <<>>
      [] text = "a" -> <<"a">>
      [] text = "b" -> <<"b">>

\* fnmatch.fnmatch(name, pat) on the characters of the name and of the
\* pattern: `*` matches any run of characters, `?` any one character, any
\* other character itself (os.path.normcase leaves both as they are on POSIX).
RECURSIVE glob(_, _)
glob(n, pat) ==
    IF pat = <<>> THEN n = <<>>
    ELSE IF Head(pat) = "*" THEN glob(n, Tail(pat)) \/ (n # <<>> /\ glob(Tail(n), pat))
    ELSE IF Head(pat) = "?" THEN n # <<>> /\ glob(Tail(n), Tail(pat))
    ELSE n # <<>> /\ Head(n) = Head(pat) /\ glob(Tail(n), Tail(pat))

fnmatch(name, pat) == glob(Chars(name[2]), pat)

\* The loop of _cut_fmu_model_description_with_lists from the k-th selected
\* variable on: the exception raised ("" when none), the collection and the
\* staged names as the loop leaves them.
RECURSIVE cut_from(_, _, _, _, _, _)
cut_from(svs, pending, selected, k, keep_list, delete_list) ==
    IF k > Len(selected)
    THEN [err |-> "", msg |-> "", variables |-> svs, pending |-> pending]
    ELSE LET scalar_variable == selected[k]
             tagged == \E i \in 1..Len(delete_list) :
                           fnmatch(scalar_variable.name, delete_list[i])
             kept == \E i \in 1..Len(keep_list) :
                         fnmatch(scalar_variable.name, keep_list[i])
             delete == IF kept THEN FALSE ELSE tagged
             r == remove_scalar_variable_by_name(svs, pending, scalar_variable.name)
         IN  IF ~delete THEN cut_from(svs, pending, selected, k + 1, keep_list, delete_list)
             ELSE IF r.err # "" THEN r
             ELSE cut_from(r.variables, r.pending, selected, k + 1, keep_list, delete_list)

\* _cut_fmu_model_description_with_lists(keep_list, delete_list, fmu).
cut_fmu_model_description_with_lists(svs, pending, keep_list, delete_list) ==
    cut_from(svs, pending,
             query_scalar_variables(svs,
                 Some([FMUScalarVariable EXCEPT !.causality = CausalityMember("parameter")])),
             1, keep_list, delete_list)

\* -------------------------------------------------------------- serializer
\* find("ModelVariables//ScalarVariable[@name='{name}']"): the position of the
\* first element whose name attribute is the text of name; 0 when none is.
find_by_name(fmu_tree, name) ==
    LET hits == {j \in 1..Len(fmu_tree) : fmu_tree[j].name = PyStr(name)}
    IN  IF hits = {} THEN 0 ELSE CHOOSE j \in hits : \A h \in hits : j <= h

\* __remove_xml_variable_by_name finding the element and leaving it in place.
remove_xml_variable_by_name_kept(fmu_tree, name) ==
    LET e == find_by_name(fmu_tree, name)
    IN  IF e = 0 THEN [err |-> "AttributeError", fmu_tree |-> fmu_tree]
        ELSE [err |-> "", fmu_tree |-> fmu_tree]

\* __remove_xml_variable_by_name: the tree without that element;
\* AttributeError (find gave None) when there is none.
remove_xml_variable_by_name(fmu_tree, name) ==
    LET e == find_by_name(fmu_tree, name)
    IN  IF e = 0 THEN [err |-> "AttributeError", fmu_tree |-> fmu_tree]
        ELSE [err |-> "",
              fmu_tree |-> [j \in 1..(Len(fmu_tree) - 1) |->
                              IF j < e THEN fmu_tree[j] ELSE fmu_tree[j + 1]]]

\* The tag __update_xml_model_description_scalar_variable writes for a data type.
DataTypeTag(data_type) ==
    CASE data_type = FMUDataTypesMember("real") -> "Real"
      [] data_type = FMUDataTypesMember("integer") -> "Integer"
      [] data_type = FMUDataTypesMember("boolean") -> "Boolean"
      [] data_type = FMUDataTypesMember("enumeration") -> "Enumeration"
      [] data_type = FMUDataTypesMember("string") -> "String"
      [] OTHER -> "TypeError"

\* __update_xml_model_description_scalar_variable: every field of the variable
\* that is not None is written onto the first element of its name.
update_xml_model_description_scalar_variable(fmu_tree, variable) ==
    LET e == find_by_name(fmu_tree, variable.name)
        element == fmu_tree[e]
        Attr(old, new) == IF new # None THEN PyStr(new) ELSE old
        tag == IF variable.data_type # None THEN DataTypeTag(variable.data_type)
               ELSE element.tag
        written ==
            [element EXCEPT
               !.causality = Attr(@, variable.causality),
               !.unit = Attr(@, variable.unit),
               !.initial = Attr(@, variable.initial),
               !.description = Attr(@, variable.description),
               !.valueReference = Attr(@, variable.value_reference)]
    IN  IF e = 0 THEN [err |-> "AttributeError", fmu_tree |-> fmu_tree]
        ELSE IF tag = "TypeError"
        THEN [err |-> "TypeError", fmu_tree |-> [fmu_tree EXCEPT ![e] = written]]
        ELSE [err |-> "",
              fmu_tree |-> [fmu_tree EXCEPT ![e] =
                              [written EXCEPT !.tag = tag,
                                              !.start = Attr(@, variable.start)]]]

\* The removal loop reading the staged names without popping them: the
\* elements are removed and the names stay staged.
RECURSIVE drain_removed_unpopped(_, _)
drain_removed_unpopped(fmu_tree, pending) ==
    IF pending = <<>> THEN [err |-> "", fmu_tree |-> fmu_tree, pending |-> pending]
    ELSE LET r == remove_xml_variable_by_name(fmu_tree, pending[Len(pending)])
             rest == drain_removed_unpopped(r.fmu_tree, SubSeq(pending, 1, Len(pending) - 1))
         IN  IF r.err # "" THEN [err |-> r.err, fmu_tree |-> fmu_tree, pending |-> pending]
             ELSE [rest EXCEPT !.pending = pending]

\* The `while self._scalar_variables_to_be_removed` loop: the last staged name
\* is popped and its element removed, until none is staged or one raises.
RECURSIVE drain_removed(_, _)
drain_removed(fmu_tree, pending) ==
    IF pending = <<>> THEN [err |-> "", fmu_tree |-> fmu_tree, pending |-> pending]
    ELSE LET remove_var == pending[Len(pending)]
             rest == SubSeq(pending, 1, Len(pending) - 1)
             r == remove_xml_variable_by_name(fmu_tree, remove_var)
         IN  IF r.err # "" THEN [err |-> r.err, fmu_tree |-> fmu_tree, pending |-> rest]
             ELSE drain_removed(r.fmu_tree, rest)

\* The `for variable in ...scalar_variables` loop, from the k-th variable on.
RECURSIVE update_remaining(_, _, _)
update_remaining(fmu_tree, svs, k) ==
    IF k > Len(svs) THEN [err |-> "", fmu_tree |-> fmu_tree]
    ELSE LET r == update_xml_model_description_scalar_variable(fmu_tree, svs[k])
         IN  IF r.err # "" THEN r ELSE update_remaining(r.fmu_tree, svs, k + 1)

\* __update_xml_model_description, on the document fmu_tree.  (The serializer
\* operators above take the ModelVariables section of the tree.)
update_xml_model_description(fmu_tree, svs, pending) ==
    LET d == drain_removed(fmu_tree.ModelVariables, pending)
        u == update_remaining(d.fmu_tree, svs, 1)
    IN  IF d.err # ""
        THEN [err |-> d.err, pending |-> d.pending,
              fmu_tree |-> [fmu_tree EXCEPT !.ModelVariables = d.fmu_tree]]
        ELSE [err |-> u.err, pending |-> d.pending,
              fmu_tree |-> [fmu_tree EXCEPT !.ModelVariables = u.fmu_tree]]

\* The copy loop without the test `item.filename != 'modelDescription.xml'`:
\* the old document is copied too.
rewrite_archive_appending(zip_in, new_model_description_xml) ==
    Archive(Append(zip_in.members, Member(ModelDescriptionXml, "xml")),
            new_model_description_xml)

\* The copy loop with the test inverted: only the old document is copied.
rewrite_archive_dropping(zip_in, new_model_description_xml) ==
    LET IsMd(m) == m.filename = ModelDescriptionXml
    IN  Archive(Append(SelectSeq(zip_in.members, IsMd), Member(ModelDescriptionXml, "xml")),
                new_model_description_xml)

\* The archive get_zip_file_bytes_io writes: every member of zip_in but
\* modelDescription.xml, in order, then the rendered document.
rewrite_archive(zip_in, new_model_description_xml) ==
    LET Other(m) == m.filename # ModelDescriptionXml
    IN  Archive(Append(SelectSeq(zip_in.members, Other), Member(ModelDescriptionXml, "xml")),
                new_model_description_xml)

\* ------------------------------------------------------------------- state
VARIABLES
    alive,              \* a session object exists (a construction succeeded)
    fmu_tree,           \* self._fmu_tree: the retained document
    scalar_variables,   \* self.model_description.model_variables.scalar_variables
    to_be_removed,      \* self._scalar_variables_to_be_removed
    data,               \* self._data: the archive the session holds
    fmu_file,           \* the archive on disk a construction by path reads
    last,               \* the last call: its name, the exception it raised, the message
    steps,              \* the calls made so far
    removed,            \* history: the names removed from what the session holds
    file_removed,       \* history: the names removed from the archive on disk
    two,                \* two sessions of one source and the objects they name (SpecTwo)
    held                \* the list a query returned to the caller, and the caller's loop over it

vars == <<alive, fmu_tree, scalar_variables, to_be_removed, data, fmu_file, last, steps,
          removed, file_removed, two, held>>

Call(op, err, msg) == [op |-> op, result |-> IF err = "" THEN "ok" ELSE err, msg |-> msg]

\* The arguments the calls are made with.
NameArgs == {None, StrV(""), StrV("a"), StrV("b")}
StartArgs == {BoolV("False"), IntV("69")}

\* The values a set call gives a field.
SetFields == {SetOrder[k] : k \in 1..Len(SetOrder)}
SetArgs(f) ==
    CASE f = "causality" -> {CausalityMember("output")}
      [] f = "unit" -> {StrV("Pa")}
      [] f = "start" -> StartArgs
      [] f = "data_type" -> {FMUDataTypesMember("integer")}
      [] f = "initial" -> {InitialMember("approx")}
      [] f = "description" -> {StrV("e")}
      [] f = "value_reference" -> {IntV("0")}

\* The set_values of the direct calls: a name, and no, one or two fields.
SetValuesArgs ==
    {[FMUScalarVariable EXCEPT !.name = name] : name \in NameArgs}
    \cup UNION {UNION {{[FMUScalarVariable EXCEPT !.name = name, ![f] = v, ![g] = w] :
                         name \in NameArgs, v \in SetArgs(f), w \in SetArgs(g)} :
                       g \in SetFields} : f \in SetFields}

\* FMUAdapter.__init__ on an archive: the exception raised ("" when none) and
\* the fields of the new session.
construct(archive) ==
    LET loaded == load_fmu_data(archive)
        parsed == parse_fmu_model_description(loaded.fmu_tree)
    IN  [err |-> IF loaded.err # "" THEN loaded.err ELSE parsed.err,
         fmu_tree |-> loaded.fmu_tree,
         variables |-> parsed.variables]

\* The caller holds no query result.
NoResult == <<>>

InitFrom(archives) ==
    \E archive \in archives :
        LET c == construct(archive)
        IN  /\ held = NoResult
            /\ fmu_file = archive
            /\ data = archive
            /\ alive = (c.err = "")
            /\ fmu_tree = IF c.err = "" THEN c.fmu_tree ELSE Document(<<>>, FALSE, FALSE, FALSE)
            /\ scalar_variables = c.variables
            /\ to_be_removed = <<>>
            /\ last = Call("construct", c.err, "")
            /\ steps = 0
            /\ removed = {}
            /\ file_removed = {}

\* One session: the objects of a second one do not exist.
NoPair == <<>>

Init == InitFrom(Archives) /\ two = NoPair
InitSet == InitFrom(SetArchives) /\ two = NoPair

\* A construction: a new session replaces the current one when it succeeds;
\* when it raises, no new session exists and the current one is as it was.
Construct(archive, inherited) ==
    LET c == construct(archive)
    IN  /\ steps' = steps + 1
        /\ last' = Call("construct", c.err, "")
        /\ UNCHANGED <<fmu_file, file_removed, two, held>>
        /\ IF c.err = ""
           THEN /\ alive' = TRUE
                /\ data' = archive
                /\ fmu_tree' = c.fmu_tree
                /\ scalar_variables' = c.variables
                /\ to_be_removed' = <<>>
                /\ removed' = inherited
           ELSE UNCHANGED <<alive, data, fmu_tree, scalar_variables, to_be_removed, removed>>

\* FMUAdapter(fmu_file=path).
ConstructFromFile == Construct(fmu_file, file_removed)

\* FMUAdapter(data=fmu._data, file_name=name): the names staged since the last
\* render are still in that archive.
ConstructFromData ==
    /\ alive
    /\ Construct(data, removed \ {to_be_removed[i] : i \in 1..Len(to_be_removed)})

\* self.__set_scalar_variable_by_name(set_values).
SetScalarVariableByName(set_values) ==
    LET r == set_scalar_variable_by_name(scalar_variables, set_values)
    IN  /\ alive
        /\ steps' = steps + 1
        /\ scalar_variables' = r.variables
        /\ last' = Call("set_scalar_variable_by_name", r.err, r.msg)
        /\ UNCHANGED <<alive, fmu_tree, to_be_removed, data, fmu_file, removed, file_removed, two, held>>

\* fmu.set_start_value(name, value).
SetStartValue(name, value) ==
    LET r == set_start_value(scalar_variables, name, value)
    IN  /\ alive
        /\ steps' = steps + 1
        /\ scalar_variables' = r.variables
        /\ last' = Call("set_start_value", r.err, r.msg)
        /\ UNCHANGED <<alive, fmu_tree, to_be_removed, data, fmu_file, removed, file_removed, two, held>>

\* fmu.remove_scalar_variable_by_name(name).
RemoveScalarVariableByName(name) ==
    LET r == remove_scalar_variable_by_name(scalar_variables, to_be_removed, name)
    IN  /\ alive
        /\ steps' = steps + 1
        /\ scalar_variables' = r.variables
        /\ to_be_removed' = r.pending
        /\ last' = Call("remove_scalar_variable_by_name", r.err, r.msg)
        /\ removed' = removed \cup {r.pending[i] : i \in (Len(to_be_removed) + 1)..Len(r.pending)}
        /\ UNCHANGED <<alive, fmu_tree, data, fmu_file, file_removed, two, held>>

\* fmu.get_zip_file_bytes_io(): the tree is updated and, when that raised
\* nothing, the archive is rewritten and becomes self._data.
GetZipFileBytesIO ==
    LET u == update_xml_model_description(fmu_tree, scalar_variables, to_be_removed)
    IN  /\ alive
        /\ steps' = steps + 1
        /\ fmu_tree' = u.fmu_tree
        /\ to_be_removed' = u.pending
        /\ data' = IF u.err = "" THEN rewrite_archive(data, u.fmu_tree) ELSE data
        /\ last' = Call("get_zip_file_bytes_io", u.err, "")
        /\ UNCHANGED <<alive, scalar_variables, fmu_file, removed, file_removed, two, held>>

\* fmu.save_fmu(tar_dir_path, file_name): get_zip_file_bytes_io(), then the
\* bytes of self._data are written to the file.
SaveFmu ==
    LET u == update_xml_model_description(fmu_tree, scalar_variables, to_be_removed)
    IN  /\ alive
        /\ steps' = steps + 1
        /\ fmu_tree' = u.fmu_tree
        /\ to_be_removed' = u.pending
        /\ data' = IF u.err = "" THEN rewrite_archive(data, u.fmu_tree) ELSE data
        /\ fmu_file' = IF u.err = "" THEN data' ELSE fmu_file
        /\ file_removed' = IF u.err = "" THEN removed ELSE file_removed
        /\ last' = Call("save_fmu", u.err, "")
        /\ UNCHANGED <<alive, scalar_variables, removed, two, held>>

\* The glob patterns of keep_elements and delete_elements, and the lists made
\* of them: no, one or two patterns, in either order.
Patterns == {<<"*">>, <<"a", "*">>}
PatternLists == SeqsUpTo(Patterns, 2)

\* _cut_fmu_model_description_with_lists(keep_list, delete_list, fmu).
CutFmuModelDescriptionWithLists(keep_list, delete_list) ==
    LET r == cut_fmu_model_description_with_lists(scalar_variables, to_be_removed,
                                                  keep_list, delete_list)
    IN  /\ alive
        /\ steps' = steps + 1
        /\ scalar_variables' = r.variables
        /\ to_be_removed' = r.pending
        /\ last' = Call("cut_fmu_model_description_with_lists", r.err, r.msg)
        /\ removed' = removed \cup {r.pending[i] : i \in (Len(to_be_removed) + 1)..Len(r.pending)}
        /\ UNCHANGED <<alive, fmu_tree, data, fmu_file, file_removed, two, held>>

\* The queries a caller holds the result of: no pattern, an empty pattern, a
\* pattern with an empty name, and populated patterns.
HeldQueries ==
    {NoObject, Some(FMUScalarVariable), Some([FMUScalarVariable EXCEPT !.name = StrV("")]),
     Some([FMUScalarVariable EXCEPT !.causality = CausalityMember("parameter")]),
     Some([FMUScalarVariable EXCEPT !.name = StrV("b")])}

\* result = fmu.query_scalar_variables(query): the caller holds the list object
\* returned; `returned` keeps the elements it had when it was returned, and
\* index is the position of the caller's `for` loop over it.
QueryScalarVariables(query) ==
    /\ alive
    /\ steps' = steps + 1
    /\ held' = [query |-> query,
                object |-> returned_list(scalar_variables, query),
                returned |-> query_scalar_variables(scalar_variables, query),
                index |-> 0, raised |-> FALSE]
    /\ last' = Call("query_scalar_variables", "", "")
    /\ UNCHANGED <<alive, fmu_tree, scalar_variables, to_be_removed, data, fmu_file,
                   removed, file_removed, two>>

\* One iteration of
\*     for scalar_variable in result:
\*         fmu.remove_scalar_variable_by_name(name=scalar_variable.name)
\* the list iterator yields the element at its index in the list as the list
\* is now, and stops when the index has reached the length of the list; an
\* exception of the body ends the loop.
ForRemove ==
    LET list == elements(held.object, scalar_variables)
        scalar_variable == list[held.index + 1]
        r == remove_scalar_variable_by_name(scalar_variables, to_be_removed,
                                            scalar_variable.name)
    IN  /\ alive
        /\ held # NoResult
        /\ ~held.raised
        /\ held.index < Len(list)
        /\ steps' = steps + 1
        /\ held' = [held EXCEPT !.index = @ + 1, !.raised = (r.err # "")]
        /\ scalar_variables' = r.variables
        /\ to_be_removed' = r.pending
        /\ last' = Call("remove_scalar_variable_by_name", r.err, r.msg)
        /\ removed' = removed \cup {r.pending[i] : i \in (Len(to_be_removed) + 1)..Len(r.pending)}
        /\ UNCHANGED <<alive, fmu_tree, data, fmu_file, file_removed, two>>

\* The public interface of a session.
Next ==
    \/ steps < MaxSteps /\ ConstructFromFile
    \/ steps < MaxSteps /\ ConstructFromData
    \/ steps < MaxSteps /\ \E name \in NameArgs, value \in StartArgs : SetStartValue(name, value)
    \/ steps < MaxSteps /\ \E name \in NameArgs : RemoveScalarVariableByName(name)
    \/ steps < MaxSteps /\ GetZipFileBytesIO
    \/ steps < MaxSteps /\ SaveFmu

Spec == Init /\ [][Next]_vars

\* The set calls alone, made on a session as constructed: the direct calls of
\* the private __set_scalar_variable_by_name, and set_start_value.
NextSet ==
    \/ steps < MaxSetCalls /\ \E set_values \in SetValuesArgs : SetScalarVariableByName(set_values)
    \/ steps < MaxSetCalls /\ \E name \in NameArgs, value \in StartArgs : SetStartValue(name, value)

SpecSet == InitSet /\ [][NextSet]_vars

\* A caller that queries, holds the result, and removes variables: by calls
\* of its own, or in a loop over the result.
NextQuery ==
    \/ steps < MaxQueryCalls /\ \E query \in HeldQueries : QueryScalarVariables(query)
    \/ steps < MaxQueryCalls /\ \E name \in NameArgs : RemoveScalarVariableByName(name)
    \/ steps < MaxQueryCalls /\ ForRemove

SpecQuery == Init /\ [][NextQuery]_vars

\* Loading, rendering, saving and loading again, on archives with and without
\* the root sections.
InitLoad == InitFrom(LoadArchives) /\ two = NoPair

NextLoad ==
    \/ steps < MaxSteps /\ ConstructFromFile
    \/ steps < MaxSteps /\ ConstructFromData
    \/ steps < MaxSteps /\ GetZipFileBytesIO
    \/ steps < MaxSteps /\ SaveFmu

SpecLoad == InitLoad /\ [][NextLoad]_vars

\* reduce_fmu_model_descriptions_in_directory, for one file: the session is
\* constructed, reduced with the lists of the configuration, and saved.
NextCut ==
    \/ steps < MaxCuts /\ \E keep_list \in PatternLists, delete_list \in PatternLists :
                              CutFmuModelDescriptionWithLists(keep_list, delete_list)
    \/ /\ last.op = "cut_fmu_model_description_with_lists" /\ last.result = "ok"
       /\ SaveFmu

SpecCut == Init /\ [][NextCut]_vars

\* ------------------------------------------------------------ two sessions
\* Two FMUAdapter objects, and the objects their attributes name: the lists
\* of staged names and the BytesIO buffers are objects of their own, named by
\* a reference, so that an object two attributes name is one object.
Sessions == {"A", "B"}
OtherSession(s) == IF s = "A" THEN "B" ELSE "A"
ListRefs == Sessions \cup {"class"}
BufRefs == 1..3

\* __init__ without `self._scalar_variables_to_be_removed = []`: the
\* attribute read through the instance is the list of the class.
scalar_variables_to_be_removed_of_class(s) == "class"

\* `self._scalar_variables_to_be_removed = []` in __init__: the attribute of
\* the instance names a new list, the instance's own.
scalar_variables_to_be_removed_of(s) == s

\* The archives two sessions are loaded from.
TwoNodes == {n \in Nodes : n.tag = "Real" /\ (n.name = StrV("a") \/ n.start = None)}
TwoArchives ==
    {archive \in {ArchiveOf(Document(v, TRUE, TRUE, FALSE)) : v \in SeqsUpTo(TwoNodes, MaxVars)} :
        construct(archive).err = ""}

\* The session object __init__ leaves: its tree and variables, and the list
\* and the buffer its attributes name.
Session(s, c, buffer) ==
    [fmu_tree |-> c.fmu_tree, scalar_variables |-> c.variables,
     list |-> scalar_variables_to_be_removed_of(s), data |-> buffer]

TwoCall(s, op, err) == [session |-> s, op |-> op, result |-> IF err = "" THEN "ok" ELSE err]

\* A = FMUAdapter(fmu_file=path), and B = FMUAdapter(fmu_file=path), which
\* reads the file into a buffer of its own, or
\* B = FMUAdapter(data=A._data, file_name=name), whose _data is A's buffer.
InitTwo ==
    /\ InitFrom(TwoArchives)
    /\ \E shared \in BOOLEAN :
           LET c == construct(fmu_file)
           IN  two = [lists |-> [r \in ListRefs |-> <<>>],
                      buffers |-> [r \in BufRefs |->
                                      IF r = 1 \/ (r = 2 /\ ~shared) THEN Some(fmu_file)
                                      ELSE NoObject],
                      session |-> [s \in Sessions |->
                                      Session(s, c, IF s = "A" \/ shared THEN 1 ELSE 2)],
                      last |-> TwoCall("B", "construct", c.err)]

\* The frame of a call on one of the two sessions.
OnPair ==
    /\ steps' = steps + 1
    /\ UNCHANGED <<alive, fmu_tree, scalar_variables, to_be_removed, data, fmu_file, last,
                   removed, file_removed, held>>

\* s.set_start_value(name, value).
SetStartValueIn(s, name, value) ==
    LET self == two.session[s]
        r == set_start_value(self.scalar_variables, name, value)
    IN  /\ OnPair
        /\ two' = [two EXCEPT !.session[s].scalar_variables = r.variables,
                              !.last = TwoCall(s, "set_start_value", r.err)]

\* s.remove_scalar_variable_by_name(name): the name is appended to the list
\* the attribute names.
RemoveScalarVariableByNameIn(s, name) ==
    LET self == two.session[s]
        r == remove_scalar_variable_by_name(self.scalar_variables, two.lists[self.list], name)
    IN  /\ OnPair
        /\ two' = [two EXCEPT !.session[s].scalar_variables = r.variables,
                              !.lists[self.list] = r.pending,
                              !.last = TwoCall(s, "remove_scalar_variable_by_name", r.err)]

\* s.get_zip_file_bytes_io(): the names are popped from the list the attribute
\* names; the archive is read from the buffer self._data names and written
\* to a new buffer (io_file_container = io.BytesIO()), which self._data then
\* names; a buffer no attribute names any more is gone.
GetZipFileBytesIOIn(s) ==
    LET self == two.session[s]
        u == update_xml_model_description(self.fmu_tree, self.scalar_variables,
                                          two.lists[self.list])
        io_file_container ==
            CHOOSE r \in BufRefs : \A t \in Sessions : two.session[t].data # r
        written == rewrite_archive(two.buffers[self.data][1], u.fmu_tree)
    IN  /\ OnPair
        /\ two' = [two EXCEPT
                      !.session[s].fmu_tree = u.fmu_tree,
                      !.lists[self.list] = u.pending,
                      !.session[s].data = IF u.err = "" THEN io_file_container ELSE @,
                      !.buffers = IF u.err # "" THEN @
                                  ELSE [r \in BufRefs |->
                                          IF r = io_file_container THEN Some(written)
                                          ELSE IF two.session[OtherSession(s)].data = r THEN @[r]
                                          ELSE NoObject],
                      !.last = TwoCall(s, "get_zip_file_bytes_io", u.err)]

\* Calls on two sessions of one source, in any order.
NextTwo ==
    \/ steps < MaxPairCalls /\ \E s \in Sessions, name \in NameArgs, value \in StartArgs :
                                   SetStartValueIn(s, name, value)
    \/ steps < MaxPairCalls /\ \E s \in Sessions, name \in NameArgs :
                                   RemoveScalarVariableByNameIn(s, name)
    \/ steps < MaxPairCalls /\ \E s \in Sessions : GetZipFileBytesIOIn(s)

SpecTwo == InitTwo /\ [][NextTwo]_vars

\* ------------------------------------------------------------ properties
\* The number of variables of svs whose name is name.
Count(svs, name) == Cardinality({i \in 1..Len(svs) : svs[i].name = name})

\* The position of the one variable of svs named name (when Count is 1).
IndexOf(svs, name) == CHOOSE i \in 1..Len(svs) : svs[i].name = name

\* The list without its i-th element.
RemoveAt(list, i) ==
    [j \in 1..(Len(list) - 1) |-> IF j < i THEN list[j] ELSE list[j + 1]]

\* The patterns the queries are made with: no, one or two fields set.
QueryArgs(f) ==
    CASE f = "name" -> {StrV(""), StrV("a"), StrV("b")}
      [] f = "value_reference" -> {IntV("0"), IntV("1")}
      [] f = "causality" -> {CausalityMember("parameter"), CausalityMember("input")}
      [] f = "data_type" -> {FMUDataTypesMember("real"), FMUDataTypesMember("boolean")}
      [] f = "variability" -> {<<"Variability", "fixed">>}
      [] f = "description" -> {StrV("d")}
      [] f = "initial" -> {InitialMember("exact")}
      [] f = "can_handle_multiple_set_per_time_instant" -> {BoolV("True")}
      [] f = "start" -> {FloatV("1.5"), IntV("0"), BoolV("True"), StrV("x")}
      [] f = "unit" -> {StrV("bar")}

QueryPatterns ==
    {FMUScalarVariable}
    \cup UNION {UNION {{[FMUScalarVariable EXCEPT ![f] = v, ![g] = w] :
                         v \in QueryArgs(f), w \in QueryArgs(g)} :
                       g \in Fields} : f \in Fields}

\* The patterns with every field empty: None, or the empty string.
EmptyPatterns == {FMUScalarVariable, [FMUScalarVariable EXCEPT !.name = StrV("")]}

\* C1: a query with no pattern or with a pattern whose fields are all empty
\* returns the whole live collection in its order; right after a construction
\* the result has one variable per ScalarVariable element of the source
\* document, named as the elements are, in document order.
C1_QueryAllInOrder ==
    alive =>
        /\ query_scalar_variables(scalar_variables, NoObject) = scalar_variables
        /\ \A q \in EmptyPatterns :
               query_scalar_variables(scalar_variables, Some(q)) = scalar_variables
        /\ (last.op = "construct" /\ last.result = "ok") =>
               LET all == query_scalar_variables(scalar_variables, Some(FMUScalarVariable))
                   source == data.xml.ModelVariables
               IN  /\ Len(all) = Len(source)
                   /\ \A i \in 1..Len(source) : all[i].name = source[i].name

C1_Witness ==
    /\ alive
    /\ last.op = "construct" /\ last.result = "ok" /\ steps > 0
    /\ Len(query_scalar_variables(scalar_variables, Some(FMUScalarVariable))) >= 2

\* The test the claim C2 states for one element: every field of the pattern
\* that is neither None nor the empty string is equal in the element.
MatchesEveryField(element, query) ==
    \A f \in Fields :
        (query[f] # None /\ query[f] # StrV("")) => PyEq(element[f], query[f])

\* C2: a query returns exactly the variables that agree with the pattern in
\* every field the pattern sets (not None, not the empty string), in the
\* order of the collection, whatever field and whatever value.
C2_QueryEveryField ==
    alive =>
        \A q \in QueryPatterns :
            LET Agrees(element) == MatchesEveryField(element, q)
            IN  query_scalar_variables(scalar_variables, Some(q))
                    = SelectSeq(scalar_variables, Agrees)

\* C3: for every name, get_scalar_variable_by_name returns the variable of
\* that name when exactly one variable has it, and None when no variable or
\* more than one has it.
C3_GetByName ==
    alive =>
        \A n \in NameArgs :
            IF Count(scalar_variables, n) = 1
            THEN get_scalar_variable_by_name(scalar_variables, n)
                     = Some(scalar_variables[IndexOf(scalar_variables, n)])
            ELSE get_scalar_variable_by_name(scalar_variables, n) = NoObject

\* C4: when exactly one variable has the name and its start is declared,
\* set_start_value(name, value) returns, the variable of that name then has
\* start = value, and nothing else changes: the variable's other fields, the
\* other variables, the order of the collection, the staged names, the tree
\* and the archives.
C4_SetStartValueFrame ==
    [][\A name \in NameArgs, value \in StartArgs :
         (/\ SetStartValue(name, value)
          /\ Count(scalar_variables, name) = 1
          /\ scalar_variables[IndexOf(scalar_variables, name)].start # None)
         => LET i == IndexOf(scalar_variables, name)
            IN  /\ last'.result = "ok"
                /\ get_scalar_variable_by_name(scalar_variables', name) # NoObject
                /\ get_scalar_variable_by_name(scalar_variables', name)[1].start = value
                /\ scalar_variables' = [scalar_variables EXCEPT ![i].start = value]
                /\ UNCHANGED <<to_be_removed, fmu_tree, data, fmu_file>>]_vars

C4_Witness ==
    /\ last.op = "set_start_value" /\ last.result = "ok"
    /\ Len(scalar_variables) >= 2
    /\ \E i \in 1..Len(scalar_variables) :
           /\ scalar_variables[i].start = IntV("69")
           /\ Count(scalar_variables, scalar_variables[i].name) = 1

\* The one field (beside the name) a set call carries, when it carries one.
TheField(set_values) == CHOOSE f \in SetFields : set_values[f] # None

\* What C5 says of a call that sets field f to value on the one variable
\* named name: KeyError and nothing changed when the variable's f is None,
\* else the call returns and get_scalar_variable_by_name shows the value.
FieldGuard(name, f, value) ==
    LET i == IndexOf(scalar_variables, name)
        got == get_scalar_variable_by_name(scalar_variables', name)
    IN  IF scalar_variables[i][f] = None
        THEN /\ last'.result = "KeyError" /\ last'.msg = FieldNotDeclared
             /\ UNCHANGED <<alive, scalar_variables, to_be_removed, fmu_tree, data, fmu_file>>
        ELSE /\ last'.result = "ok"
             /\ got # NoObject /\ got[1][f] = value

\* The set_values that carry one field beside the name.
OneFieldArgs == {sv \in SetValuesArgs : NumSet(sv, SetFields) = 1}

\* C5: setting one field of an existing variable fails with KeyError (the
\* attribute is not set in the original fmu) and changes nothing when the
\* variable's field is None; it succeeds, and the new value is seen through
\* get_scalar_variable_by_name, when the field is not None.
C5_FieldGuard ==
    [][/\ \A sv \in OneFieldArgs :
            (/\ Count(scalar_variables, sv.name) = 1
             /\ SetScalarVariableByName(sv))
            => FieldGuard(sv.name, TheField(sv), sv[TheField(sv)])
       /\ \A name \in NameArgs, value \in StartArgs :
            (/\ Count(scalar_variables, name) = 1
             /\ SetStartValue(name, value))
            => FieldGuard(name, "start", value)]_vars

C5_Witness ==
    /\ last.op = "set_scalar_variable_by_name"
    /\ last.result = "KeyError" /\ last.msg = FieldNotDeclared
    /\ \E i \in 1..Len(scalar_variables) :
           /\ Count(scalar_variables, scalar_variables[i].name) = 1
           /\ scalar_variables[i].causality = None

\* A set call with that name is made in this step.
SetCalled(name) ==
    \/ \E sv \in SetValuesArgs : sv.name = name /\ SetScalarVariableByName(sv)
    \/ \E value \in StartArgs : SetStartValue(name, value)

\* C6 as stated: for every name and value, a set call whose name does not
\* resolve through get_scalar_variable_by_name fails with KeyError (not found).
C6_SetNotFoundAnyName ==
    [][\A name \in NameArgs :
         (/\ get_scalar_variable_by_name(scalar_variables, name) = NoObject
          /\ ~(last'.result = "KeyError" /\ last'.msg = NotFound))
         => ~SetCalled(name)]_vars

\* What the amended C6 says of a set call with that name.
SetNotFound(name) ==
    /\ (Truthy(name) /\ get_scalar_variable_by_name(scalar_variables, name) = NoObject)
       => /\ last'.result = "KeyError" /\ last'.msg = NotFound
          /\ UNCHANGED <<alive, scalar_variables, to_be_removed, fmu_tree, data, fmu_file>>
    /\ ~Truthy(name)
       => /\ last'.result = "ok"
          /\ UNCHANGED <<alive, scalar_variables, to_be_removed, fmu_tree, data, fmu_file>>

\* C6, amended: for every name that is neither None nor empty, a set call
\* whose name does not resolve through get_scalar_variable_by_name fails with
\* KeyError (not found) and changes nothing; with a None or empty name the
\* call returns without an error and changes nothing.
C6_SetNotFound ==
    [][\A name \in NameArgs : ~SetNotFound(name) => ~SetCalled(name)]_vars

C6_Witness ==
    /\ alive /\ scalar_variables # <<>>
    /\ last.op \in {"set_scalar_variable_by_name", "set_start_value"}
    /\ last.result = "KeyError" /\ last.msg = NotFound

\* C7: a set call that fails applies none of its fields: the collection after
\* the failed call is the collection before it.
C7_AllOrNothing ==
    [][\A sv \in SetValuesArgs :
         (SetScalarVariableByName(sv) /\ last'.result # "ok")
         => scalar_variables' = scalar_variables]_vars

\* C8: remove_scalar_variable_by_name(name) fails with KeyError whenever not
\* exactly one live variable has that name, and then neither the collection
\* nor the staged names change.
C8_RemoveNotFound ==
    [][\A name \in NameArgs :
         (RemoveScalarVariableByName(name) /\ Count(scalar_variables, name) # 1)
         => /\ last'.result = "KeyError"
            /\ UNCHANGED <<scalar_variables, to_be_removed>>]_vars

\* The names of the variables of svs.
NamesOf(svs) == {svs[j].name : j \in 1..Len(svs)}

FailsOnEmpty(archive) ==
    archive.xml.ModelVariables = <<>>
    => /\ last'.result = "KeyError"
       /\ UNCHANGED <<alive, scalar_variables, to_be_removed, fmu_tree, data>>

\* C10: a document without ScalarVariable elements cannot be loaded: the
\* construction raises KeyError.  Removing a variable whose name is its alone
\* succeeds; once every variable is removed a query returns the empty list
\* and save_fmu succeeds, writing an archive without ScalarVariable elements,
\* from which no session can be constructed.
C10_EmptyDocument ==
    /\ (data.xml.ModelVariables = <<>> => (~alive /\ last.result = "KeyError"))
    /\ [][/\ ConstructFromFile => FailsOnEmpty(fmu_file)
          /\ ConstructFromData => FailsOnEmpty(data)
          /\ \A name \in NameArgs :
               (RemoveScalarVariableByName(name) /\ Count(scalar_variables, name) = 1)
               => /\ last'.result = "ok"
                  /\ Len(scalar_variables') = Len(scalar_variables) - 1
          /\ (SaveFmu /\ scalar_variables = <<>>)
               => /\ last'.result = "ok"
                  /\ query_scalar_variables(scalar_variables', NoObject) = <<>>
                  /\ fmu_file'.xml.ModelVariables = <<>>]_vars

C10_Witness ==
    /\ alive /\ steps > 0
    /\ query_scalar_variables(scalar_variables, NoObject) = <<>>
    /\ fmu_file.xml.ModelVariables = <<>>
    /\ last.op = "construct" /\ last.result = "KeyError"

\* ------------------------------------------------- render and round trip
RenderOps == {"get_zip_file_bytes_io", "save_fmu"}

\* The variables a construction from that archive would give compare equal,
\* one by one and field by field, to those of svs.
LoadsAs(archive, svs) ==
    LET c == construct(archive)
    IN  /\ c.err = ""
        /\ Len(c.variables) = Len(svs)
        /\ \A i \in 1..Len(svs) : DataclassEq(c.variables[i], svs[i])

\* C11: rendering a session on which nothing was called since its
\* construction gives an archive that loads as the session's own variables:
\* equal field for field, in the same order.
C11_RoundTrip ==
    [][((GetZipFileBytesIO \/ SaveFmu) /\ last.op = "construct" /\ last.result = "ok")
       => /\ last'.result = "ok"
          /\ LoadsAs(data', scalar_variables)]_vars

\* C12: a render that directly follows a successful render, with no call
\* between them, gives the same archive again: the same members in the same
\* order with the same bytes, and the same document.
C12_RenderIdempotent ==
    [][((GetZipFileBytesIO \/ SaveFmu) /\ last.op \in RenderOps /\ last.result = "ok")
       => /\ last'.result = "ok"
          /\ data' = data
          /\ fmu_tree' = fmu_tree]_vars

\* Three calls, the last a get_zip_file_bytes_io and an earlier one a save_fmu
\* that wrote a removal to the file: remove, save_fmu, get_zip_file_bytes_io.
C12_Witness ==
    /\ steps = 3
    /\ last.op = "get_zip_file_bytes_io" /\ last.result = "ok"
    /\ file_removed # {}
    /\ data = fmu_file

\* The construction of this step loads the archive the session has just
\* rendered (save_fmu and a construction from the file, or a render and a
\* construction from the session's data).
LoadsRendered ==
    /\ last.op \in RenderOps /\ last.result = "ok"
    /\ \/ ConstructFromData
       \/ ConstructFromFile /\ last.op = "save_fmu"

\* The name resolves to a variable that holds a start value set_start_value
\* has stored: no source document gives a variable a start of StartArgs.
HoldsSetStart(name) ==
    /\ get_scalar_variable_by_name(scalar_variables, name) # NoObject
    /\ get_scalar_variable_by_name(scalar_variables, name)[1].start \in StartArgs

\* The value is of the variable's data type: a number for real and integer,
\* a bool for boolean, a str for string and enumeration.
WellTyped(data_type, v) ==
    CASE data_type \in {FMUDataTypesMember("real"), FMUDataTypesMember("integer")} -> v[1] = "int"
      [] data_type = FMUDataTypesMember("boolean") -> v[1] = "bool"
      [] OTHER -> v[1] = "str"

\* C13: a start value v of the variable's data type stored by
\* set_start_value is, in the session loaded from the archive saved
\* afterwards, a start that compares equal to v.
C13_StartSurvivesSave ==
    [][\A name \in NameArgs :
         (/\ last.op \in RenderOps /\ last.result = "ok"
          /\ HoldsSetStart(name)
          /\ LET old == get_scalar_variable_by_name(scalar_variables, name)[1]
             IN  WellTyped(old.data_type, old.start)
          /\ \/ ConstructFromData
             \/ ConstructFromFile /\ last.op = "save_fmu")
         => LET got == get_scalar_variable_by_name(scalar_variables', name)
                v == get_scalar_variable_by_name(scalar_variables, name)[1].start
            IN  /\ last'.result = "ok"
                /\ got # NoObject /\ PyEq(got[1].start, v)]_vars

\* C14 as stated: a start value v stored by set_start_value is, in the session
\* loaded from the archive rendered afterwards, the string str(v).
C14_StartIsText ==
    [][\A name \in NameArgs :
         (LoadsRendered /\ HoldsSetStart(name) /\ last'.result = "ok")
         => LET got == get_scalar_variable_by_name(scalar_variables', name)
                v == get_scalar_variable_by_name(scalar_variables, name)[1].start
            IN  got # NoObject /\ got[1].start = PyStr(v)]_vars

\* The start the claim C14, amended, expects of a variable of that data type
\* whose start attribute holds the text.
TypedStart(data_type, text) ==
    CASE data_type = FMUDataTypesMember("real") -> PyFloat(text)
      [] data_type = FMUDataTypesMember("integer") -> PyInt(text)
      [] data_type = FMUDataTypesMember("boolean") -> BoolV(IF text = StrV("") THEN "False" ELSE "True")
      [] OTHER -> text

\* C14, amended: a start value v stored by set_start_value is, in the session
\* loaded from the archive rendered afterwards, what the variable's data type
\* makes of the text str(v): float(str(v)) for real, int(str(v)) for integer,
\* True for boolean (the text is not empty), and the string str(v) for string
\* and enumeration; when the text is no number and the variable is real or
\* integer the archive does not load: the construction raises ValueError.
C14_StartIsTyped ==
    [][\A name \in NameArgs :
         (LoadsRendered /\ HoldsSetStart(name))
         => LET got == get_scalar_variable_by_name(scalar_variables', name)
                old == get_scalar_variable_by_name(scalar_variables, name)[1]
                typed == TypedStart(old.data_type, PyStr(old.start))
            IN  IF IsRaise(typed)
                THEN last'.result = "ValueError"
                ELSE last'.result = "ok" => (got # NoObject /\ got[1].start = typed)]_vars

C14_Witness ==
    /\ last.op = "construct" /\ last.result = "ok"
    /\ \E i \in 1..Len(scalar_variables) :
           /\ scalar_variables[i].start = FloatV("69.0")
           /\ scalar_variables[i].data_type = FMUDataTypesMember("real")

\* The members of an archive that are not the model description, in order.
OtherMembers(archive) ==
    LET Other(m) == m.filename # ModelDescriptionXml
    IN  SelectSeq(archive.members, Other)

\* C15: a render gives an archive with the member names of the archive the
\* session holds: the members other than modelDescription.xml are those of
\* that archive, with their bytes and in their order, modelDescription.xml
\* occurs once, and its document is the tree as the render leaves it.
C15_ArchiveMembers ==
    [][((GetZipFileBytesIO \/ SaveFmu) /\ last'.result = "ok")
       => /\ OtherMembers(data') = OtherMembers(data)
          /\ {data'.members[i].filename : i \in 1..Len(data'.members)}
                 = {data.members[i].filename : i \in 1..Len(data.members)}
          /\ Cardinality({i \in 1..Len(data'.members) :
                             data'.members[i].filename = ModelDescriptionXml}) = 1
          /\ data'.xml = fmu_tree'
          /\ SaveFmu => fmu_file' = data']_vars

C15_Witness ==
    /\ last.op \in RenderOps /\ last.result = "ok"
    /\ steps = 3 /\ removed # {}
    /\ data.members[Len(data.members)].filename = ModelDescriptionXml
    /\ Len(OtherMembers(data)) = 2
    /\ Len(data.xml.ModelVariables) = 1

\* ------------------------------------------------------- root sections
\* The document lacks a section the claim C16 names.
Lacks(doc) ==
    \/ doc.ModelVariables = <<>>
    \/ ~doc.DefaultExperiment
    \/ ~doc.CoSimulation /\ ~doc.ModelExchange

\* What a construction from a document that cannot be loaded leaves: an
\* exception, and the session there was (if any) as it was.
NoSessionFrom(doc) ==
    Lacks(doc)
    => /\ last'.result = "KeyError"
       /\ UNCHANGED <<alive, scalar_variables, to_be_removed, fmu_tree, data>>

\* C16: a construction from a document without ScalarVariable elements,
\* without a DefaultExperiment section, or with neither a CoSimulation nor a
\* ModelExchange section raises (KeyError), and no session comes of it: the
\* first construction leaves no session at all, a later one leaves the
\* session there was as it was.
C16_RequiredSections ==
    /\ Lacks(fmu_file.xml)
       => (~alive /\ last.result = "KeyError" /\ scalar_variables = <<>>)
    /\ [][/\ ConstructFromFile => NoSessionFrom(fmu_file.xml)
          /\ ConstructFromData => NoSessionFrom(data.xml)
          /\ last'.result = "ok" => alive']_vars

C16_Witness ==
    /\ ~alive /\ steps > 0
    /\ last.op = "construct" /\ last.result = "KeyError"
    /\ fmu_file.xml.ModelVariables # <<>>
    /\ ~fmu_file.xml.DefaultExperiment
    /\ fmu_file.xml.CoSimulation

\* C17 as stated: a construction from a document with a ModelExchange section
\* (and the sections C16 requires) raises NotImplementedError, whatever other
\* sections the document has.
C17_ModelExchangeRejected ==
    /\ (fmu_file.xml.ModelExchange /\ ~Lacks(fmu_file.xml))
       => last.result = "NotImplementedError"
    /\ [][(ConstructFromFile /\ fmu_file.xml.ModelExchange /\ ~Lacks(fmu_file.xml))
          => last'.result = "NotImplementedError"]_vars

\* What the amended C17 says of a construction from that document.
ModelExchangeOf(doc, result, svs) ==
    (doc.ModelExchange /\ ~Lacks(doc))
    => IF doc.CoSimulation
       THEN /\ result = "ok"
            /\ svs = construct(ArchiveOf([doc EXCEPT !.ModelExchange = FALSE])).variables
       ELSE result = "NotImplementedError"

\* C17, amended: a construction from a document with a ModelExchange section
\* (and ScalarVariable elements and a DefaultExperiment section) raises
\* NotImplementedError when the document has no CoSimulation section; when it
\* has one, the construction succeeds and gives the session the document
\* without the ModelExchange section gives.
C17_ModelExchangeWithoutCoSimulation ==
    /\ ModelExchangeOf(fmu_file.xml, last.result, scalar_variables)
    /\ [][ConstructFromFile
          => /\ ModelExchangeOf(fmu_file.xml, last'.result, scalar_variables')
             /\ (fmu_file.xml.ModelExchange /\ ~fmu_file.xml.CoSimulation)
                => UNCHANGED <<alive, scalar_variables, to_be_removed, fmu_tree, data>>]_vars

C17_Witness ==
    /\ ~alive /\ steps > 0
    /\ last.op = "construct" /\ last.result = "NotImplementedError"
    /\ fmu_file.xml.ModelExchange /\ ~fmu_file.xml.CoSimulation

\* ------------------------------------------------------- batch reduction
\* Some pattern of the list matches the name.
MatchesAny(name, list) == \E i \in 1..Len(list) : fnmatch(name, list[i])

\* C18: a batch reduction removes exactly the variables whose causality is
\* parameter, whose name matches a pattern of delete_elements and no pattern
\* of keep_elements; every other variable stays, in its place.
C18_BatchReduction ==
    [][\A keep_list \in PatternLists, delete_list \in PatternLists :
         CutFmuModelDescriptionWithLists(keep_list, delete_list)
         => LET Survives(v) ==
                    ~(/\ v.causality = CausalityMember("parameter")
                      /\ MatchesAny(v.name, delete_list)
                      /\ ~MatchesAny(v.name, keep_list))
            IN  scalar_variables' = SelectSeq(scalar_variables, Survives)]_vars

\* ------------------------------------------------------- pending removals
\* The names of the elements of a ModelVariables section, in document order.
ElementNames(xml_variables) == [j \in 1..Len(xml_variables) |-> xml_variables[j].name]

\* C19: a render leaves no name staged; the tree it leaves has no element of
\* a name that was staged, and has every other element it had, in the order
\* it had them; a render with no name staged detaches no element.
C19_RenderDrains ==
    [][(GetZipFileBytesIO \/ SaveFmu)
       => LET staged == {to_be_removed[i] : i \in 1..Len(to_be_removed)}
              NotStaged(e) == e.name \notin staged
          IN  /\ last'.result = "ok"
              /\ to_be_removed' = <<>>
              /\ \A j \in 1..Len(fmu_tree'.ModelVariables) :
                     fmu_tree'.ModelVariables[j].name \notin staged
              /\ ElementNames(fmu_tree'.ModelVariables)
                     = ElementNames(SelectSeq(fmu_tree.ModelVariables, NotStaged))
              /\ to_be_removed = <<>>
                 => Len(fmu_tree'.ModelVariables) = Len(fmu_tree.ModelVariables)]_vars

C19_Witness ==
    /\ last.op = "get_zip_file_bytes_io" /\ last.result = "ok"
    /\ removed # {} /\ to_be_removed = <<>>
    /\ Len(fmu_file.xml.ModelVariables) = 2
    /\ Len(fmu_tree.ModelVariables) = 1
    /\ fmu_tree.ModelVariables[1].name \notin removed

\* ----------------------------------------------------------- two sessions
\* What a session shows: its variables, the names staged in the list its
\* attribute names, its tree, the archive in the buffer its _data names, and
\* the archive a render of it would write.
View(pair, s) ==
    LET self == pair.session[s]
        pending == pair.lists[self.list]
        archive == pair.buffers[self.data]
        u == update_xml_model_description(self.fmu_tree, self.scalar_variables, pending)
    IN  [scalar_variables |-> self.scalar_variables,
         to_be_removed |-> pending,
         fmu_tree |-> self.fmu_tree,
         data |-> archive,
         rendered |-> IF u.err = "" /\ archive # NoObject
                      THEN Some(rewrite_archive(archive[1], u.fmu_tree)) ELSE NoObject]

\* A call is made on the session s in this step.
CalledOn(s) ==
    \/ \E name \in NameArgs, value \in StartArgs : SetStartValueIn(s, name, value)
    \/ \E name \in NameArgs : RemoveScalarVariableByNameIn(s, name)
    \/ GetZipFileBytesIOIn(s)

\* C20: of two sessions loaded from one source (both from the file, or the
\* second from the buffer of the first), a set, remove or render call on one
\* leaves what the other shows as it was: its variables, its staged names,
\* its tree, its archive and the archive it would render.
C20_SessionsIndependent ==
    [][\A s \in Sessions :
         CalledOn(s) => View(two', OtherSession(s)) = View(two, OtherSession(s))]_vars

\* The second session was constructed from the buffer of the first; the first
\* has removed a variable and rendered; the second still has its variables,
\* no name staged, and the buffer it was given.
C20_Witness ==
    /\ two.last = TwoCall("A", "get_zip_file_bytes_io", "")
    /\ two.session["B"].data = 1 /\ two.session["A"].data # 1
    /\ Len(two.session["A"].fmu_tree.ModelVariables) = 1
    /\ Len(two.session["B"].fmu_tree.ModelVariables) = 2
    /\ Len(two.session["B"].scalar_variables) = 2
    /\ two.lists[two.session["B"].list] = <<>>
    /\ two.buffers[1] = Some(fmu_file)

\* ------------------------------------------------------ session invariant
\* The elements of list at the positions of keep, in their order.
Pick(list, keep) ==
    LET Kept(i) == i \in keep
        idx == SelectSeq([i \in 1..Len(list) |-> i], Kept)
    IN  [k \in 1..Len(idx) |-> list[idx[k]]]

\* The names of the variables of svs, in their order.
VariableNames(svs) == [j \in 1..Len(svs) |-> svs[j].name]

\* tree_names is live_names with the names of pending put in between: taking
\* as many positions out of tree_names as pending has names, those positions
\* holding the names of pending, leaves live_names.
Interleaved(tree_names, live_names, pending) ==
    \E staged \in SUBSET (1..Len(tree_names)) :
        /\ Cardinality(staged) = Len(pending)
        /\ {tree_names[p] : p \in staged} = {pending[i] : i \in 1..Len(pending)}
        /\ Pick(tree_names, (1..Len(tree_names)) \ staged) = live_names

\* The variables of sub are variables of full, in the order of full: each is
\* the variable of full at its position, with at most another start.
SubSequence(sub, full) ==
    \E keep \in SUBSET (1..Len(full)) :
        LET kept == Pick(full, keep)
        IN  /\ Len(kept) = Len(sub)
            /\ \A k \in 1..Len(sub) : [sub[k] EXCEPT !.start = None]
                                           = [kept[k] EXCEPT !.start = None]

\* What C21 says of the state of a session.
SessionInvariant(tree, svs, pending) ==
    /\ Interleaved(ElementNames(tree.ModelVariables), VariableNames(svs), pending)
    /\ \A i, j \in 1..Len(pending) : pending[i] = pending[j] => i = j
    /\ \A i \in 1..Len(pending) : pending[i] \notin NamesOf(svs)

\* C21: in every state of a session, the names of the ScalarVariable elements
\* of the retained tree, in document order, are the names of the collection
\* with the staged names in between; no name is staged twice and no staged
\* name is the name of a variable of the collection; a construction gives the
\* collection of the document parsed, and every other call leaves a
\* collection whose variables are variables of the collection before it, in
\* the order they had (none is added, none changes place).
C21_SessionInvariant ==
    /\ alive => SessionInvariant(fmu_tree, scalar_variables, to_be_removed)
    /\ [][/\ alive' => SessionInvariant(fmu_tree', scalar_variables', to_be_removed')
          /\ IF last'.op = "construct" /\ last'.result = "ok"
             THEN scalar_variables' = parse_fmu_scalar_variables(fmu_tree').variables
             ELSE SubSequence(scalar_variables', scalar_variables)]_vars

\* A variable is staged and another is live: the tree still holds both.
C21_Witness ==
    /\ last.op = "remove_scalar_variable_by_name" /\ last.result = "ok"
    /\ Len(fmu_tree.ModelVariables) = 2
    /\ Len(to_be_removed) = 1 /\ Len(scalar_variables) = 1
    /\ fmu_tree.ModelVariables[1].name = to_be_removed[1]
    /\ scalar_variables[1].start \in StartArgs

\* ------------------------------------------------------- lookup by name
\* C22: whenever get_scalar_variable_by_name(n) returns a variable, the
\* variable's name is n, for every n (None and the empty string included) and
\* every collection; a successful remove_scalar_variable_by_name(n) stages n
\* and takes a variable named n out of the collection, and a
\* set_start_value(n, v) changes no variable of another name.
C22_ReturnedNameMatches ==
    /\ alive =>
           \A n \in NameArgs :
               LET got == get_scalar_variable_by_name(scalar_variables, n)
               IN  got # NoObject => got[1].name = n
    /\ [][/\ \A n \in NameArgs :
                (RemoveScalarVariableByName(n) /\ last'.result = "ok")
                => /\ to_be_removed' = Append(to_be_removed, n)
                   /\ \E i \in 1..Len(scalar_variables) :
                          /\ scalar_variables[i].name = n
                          /\ scalar_variables' = RemoveAt(scalar_variables, i)
          /\ \A n \in NameArgs, v \in StartArgs :
                SetStartValue(n, v)
                => \A i \in 1..Len(scalar_variables) :
                       scalar_variables[i].name # n
                       => scalar_variables'[i] = scalar_variables[i]]_vars

\* --------------------------------------------------------- query results
\* C23 as stated: the list a query returned has, after any later removal, the
\* length and the elements it had when it was returned, whatever the query.
C23_QueryIsSnapshot ==
    held # NoResult => elements(held.object, scalar_variables) = held.returned

\* C23, amended: the list a query with a pattern (empty or populated) returned
\* has, after any later removal, the length and the elements it had when it
\* was returned, and a loop over it that removes each element's name and ends
\* without an exception has removed every variable of the result; the list a
\* query with no pattern (None) returned is the collection itself: after a
\* removal it is the collection without the removed variable.
C23_PatternQueryIsSnapshot ==
    [][held' # NoResult =>
         LET list == elements(held'.object, scalar_variables')
         IN  IF held'.query # NoObject
             THEN /\ list = held'.returned
                  /\ (held'.index = Len(list) /\ ~held'.raised)
                     => \A k \in 1..Len(held'.returned) :
                            held'.returned[k].name \notin NamesOf(scalar_variables')
             ELSE /\ list = scalar_variables'
                  /\ (last'.op = "remove_scalar_variable_by_name" /\ last'.result = "ok")
                     => /\ held # NoResult
                        /\ Len(list) = Len(elements(held.object, scalar_variables)) - 1
                        /\ \E i \in 1..Len(scalar_variables) :
                               list = RemoveAt(scalar_variables, i)]_vars

\* A loop over the result of a populated pattern has removed both variables
\* of the result, and the result still has them.
C23_Witness ==
    /\ held # NoResult
    /\ held.query = Some([FMUScalarVariable EXCEPT !.causality = CausalityMember("parameter")])
    /\ held.index = 2 /\ ~held.raised
    /\ Len(elements(held.object, scalar_variables)) = 2
    /\ scalar_variables = <<>> /\ Len(to_be_removed) = 2

\* -------------------------------------------------------- Boolean starts
\* The truth value the text of a Boolean start attribute denotes.
TruthDenoted(text) ==
    CASE text[2] \in {"true", "True", "1"} -> BoolV("True")
      [] text[2] \in {"false", "False", "0"} -> BoolV("False")
      [] OTHER -> Raise("ValueError")

\* The truth values the Boolean start attributes of a ModelVariables section
\* denote, in document order (None for an element that is not Boolean or
\* declares no start).
BooleanStarts(xml_variables) ==
    [j \in 1..Len(xml_variables) |->
        IF xml_variables[j].tag = "Boolean" /\ xml_variables[j].start # None
        THEN TruthDenoted(xml_variables[j].start) ELSE None]

\* C24: a construction gives every Boolean variable the truth value the text
\* of its start attribute denotes (False for "false", True for "true"), and
\* a render of a session on which nothing was called since its construction
\* leaves every Boolean start attribute of the document denoting the truth
\* value it denoted.
C24_BooleanStartDenoted ==
    /\ (last.op = "construct" /\ last.result = "ok")
       => \A i \in 1..Len(scalar_variables) :
              BooleanStarts(fmu_tree.ModelVariables)[i] # None
              => scalar_variables[i].start = BooleanStarts(fmu_tree.ModelVariables)[i]
    /\ [][/\ (last'.op = "construct" /\ last'.result = "ok")
             => \A i \in 1..Len(scalar_variables') :
                    BooleanStarts(fmu_tree'.ModelVariables)[i] # None
                    => scalar_variables'[i].start = BooleanStarts(fmu_tree'.ModelVariables)[i]
          /\ ((GetZipFileBytesIO \/ SaveFmu) /\ last.op = "construct" /\ last.result = "ok")
             => BooleanStarts(fmu_tree'.ModelVariables)
                    = BooleanStarts(fmu_tree.ModelVariables)]_vars

====
